---- MODULE Spec2Model ----
(***************************************************************************)
(* A model of go-git-fs: a commit of a git repository served as an io/fs   *)
(* filesystem (Tree.Open, NewFile, NewFileInfo, Object.ReadDir,            *)
(* Object.Close).  Strings are sequences of one-character strings so that  *)
(* strings.HasPrefix, strings.Split and path.Join are computed, not        *)
(* assumed.                                                                *)
(***************************************************************************)
EXTENDS Integers, Sequences, FiniteSets, TLC

\* ------------------------------------------------------------------ bounds
\* Largest count passed to ReadDir (the smallest is -1).
MaxN == 2

\* ----------------------------------------------------------------- strings
Slash == <<"/">>
Dot == <<".">>
N_a == <<"a", ".", "g", "o">>
N_doc == <<"d", "o", "c">>
N_docs == <<"d", "o", "c", "s">>
N_x == <<"x">>
N_sub == <<"s", "u", "b">>
N_readme == <<"r", "e", "a", "d", "m", "e", ".", "m", "d">>
N_missing == <<"m", "i", "s", "s", "i", "n", "g">>
N_path == <<"p", "a", "t", "h">>

\* strings.HasPrefix(s, prefix)
HasPrefix(s, prefix) ==
    /\ Len(s) >= Len(prefix)
    /\ SubSeq(s, 1, Len(prefix)) = prefix

\* strings.Split(s, "/"): the segments between slashes, empty ones kept.
RECURSIVE SplitFrom(_, _, _)
SplitFrom(s, i, cur) ==
    IF i > Len(s) THEN <<cur>>
    ELSE IF s[i] = "/" THEN <<cur>> \o SplitFrom(s, i + 1, <<>>)
    ELSE SplitFrom(s, i + 1, Append(cur, s[i]))

Split(s) == SplitFrom(s, 1, <<>>)

\* path.Clean on the names Open is given here: fs.ValidPath names, which are
\* already clean, and the empty name, which cleans to ".".
PathClean(name) == IF name = <<>> THEN Dot ELSE name

\* path.Join(dir, name) for a clean dir and a single-segment name:
\* Clean(dir + "/" + name), where "./name" cleans to "name".
PathJoin(dir, name) == IF dir = Dot THEN name ELSE dir \o Slash \o name

\* path.Base of a clean path: the last segment.
PathBase(p) == LET parts == Split(p) IN parts[Len(parts)]

\* ------------------------------------------------------------------ errors
Nil == "nil"
ErrNotExist == "fs.ErrNotExist"
ErrPermission == "fs.ErrPermission"
EOF == "io.EOF"
ErrEntryNotFound == "object.ErrEntryNotFound"
ErrFileNotFound == "object.ErrFileNotFound"
ErrDirectoryNotFound == "object.ErrDirectoryNotFound"
ErrObjectNotFound == "plumbing.ErrObjectNotFound"
ErrMalformedMode == "malformed mode"
ErrUnsupportedKind == "cannot get file info"
ErrStore == "store error"

\* ------------------------------------------------- the repository (fixture)
\* The snapshot's commit and its tree:
\*   a.go  doc/{sub (a submodule), x}  docs/{readme.md}
Entry(name, mode, hash) == [name |-> name, mode |-> mode, hash |-> hash]

Objects ==
    [h \in {"c2", "t0", "tdoc", "tdocs", "ba", "bx", "br"} |->
        CASE h = "c2" -> [kind |-> "commit", size |-> 0, tree |-> "t0", entries |-> <<>>]
          [] h = "t0" -> [kind |-> "tree", size |-> 0, tree |-> "",
                          entries |-> << Entry(N_a, "Regular", "ba"),
                                         Entry(N_doc, "Dir", "tdoc"),
                                         Entry(N_docs, "Dir", "tdocs") >>]
          [] h = "tdoc" -> [kind |-> "tree", size |-> 0, tree |-> "",
                            entries |-> << Entry(N_sub, "Submodule", "csub"),
                                           Entry(N_x, "Regular", "bx") >>]
          [] h = "tdocs" -> [kind |-> "tree", size |-> 0, tree |-> "",
                             entries |-> << Entry(N_readme, "Regular", "br") >>]
          [] h = "ba" -> [kind |-> "blob", size |-> 4, tree |-> "", entries |-> <<>>]
          [] h = "bx" -> [kind |-> "blob", size |-> 1, tree |-> "", entries |-> <<>>]
          [] h = "br" -> [kind |-> "blob", size |-> 7, tree |-> "", entries |-> <<>>]]

\* Tree.hash and Tree.tree, as NewFS sets them: the resolved commit, its tree.
SnapshotCommit == "c2"
SnapshotTree == Objects[Objects[SnapshotCommit].tree]

P_a == N_a
P_doc == N_doc
P_docs == N_docs
P_x == PathJoin(N_doc, N_x)
P_sub == PathJoin(N_doc, N_sub)
P_readme == PathJoin(N_docs, N_readme)

\* The files of the snapshot: the paths a commit's changes name.
FilePaths == {P_a, P_x, P_readme}

\* The commits reachable from the snapshot's commit, most recent first, with
\* their author timestamps.
CommitIds == <<"c2", "c1">>
CommitWhen == <<20, 10>>

\* Every history of the snapshot: each commit alters some files, and every
\* file of the snapshot was altered by at least one commit.
Histories ==
    {h \in [1..Len(CommitIds) -> (SUBSET FilePaths) \ {{}}] :
        UNION {h[i] : i \in 1..Len(CommitIds)} = FilePaths}

\* ------------------------------------------------------- store and history
\* The store call that fails with an I/O error during one constructor call
\* ("none": the store answers every call).
Faults == {"none", "GetObject", "Tree", "Reader", "Log", "Next"}

\* filemode.FileMode.ToOSFileMode
ToOSFileMode(mode) ==
    CASE mode = "Dir" -> [err |-> Nil, mode |-> "ModePerm|ModeDir"]
      [] mode = "Submodule" -> [err |-> Nil, mode |-> "ModePerm|ModeDir"]
      [] mode = "Regular" -> [err |-> Nil, mode |-> "0644"]
      [] mode = "Deprecated" -> [err |-> Nil, mode |-> "0644"]
      [] mode = "Executable" -> [err |-> Nil, mode |-> "0755"]
      [] mode = "Symlink" -> [err |-> Nil, mode |-> "ModePerm|ModeSymlink"]
      [] OTHER -> [err |-> ErrMalformedMode, mode |-> ""]

\* object.GetObject(repo.Storer, hash)
GetObject(hash, fault) ==
    IF fault = "GetObject" THEN [err |-> ErrStore]
    ELSE IF hash \notin DOMAIN Objects THEN [err |-> ErrObjectNotFound]
    ELSE [err |-> Nil, obj |-> Objects[hash]]

\* logOpt.PathFilter / logOpt.FileName as the constructors set them.
LogFilter(isDir, fullName, s) ==
    IF isDir
    THEN IF fullName # Dot THEN HasPrefix(s, fullName) ELSE TRUE
    ELSE s = fullName

\* repo.Log(&logOpt) then it.Next(): the first commit, walking from `from`,
\* that altered a path the filter accepts.
LogNext(hist, from, isDir, fullName, fault) ==
    IF fault = "Log" THEN [err |-> ErrStore, when |-> 0]
    ELSE IF fault = "Next" THEN [err |-> ErrStore, when |-> 0]
    ELSE LET start == CHOOSE i \in 1..Len(CommitIds) : CommitIds[i] = from
             hits == {i \in start..Len(CommitIds) :
                         \E s \in hist[i] : LogFilter(isDir, fullName, s)}
         IN IF hits = {} THEN [err |-> EOF, when |-> 0]
            ELSE [err |-> Nil,
                  when |-> CommitWhen[CHOOSE i \in hits : \A j \in hits : i <= j]]

\* ------------------------------------------------------------ constructors
NoObject ==
    [commit |-> "", hash |-> "", fullName |-> <<>>, mode |-> "", modTime |-> 0,
     size |-> 0, isDir |-> FALSE, r |-> "nil", te |-> <<>>]

Failed(err, opened) == [err |-> err, obj |-> NoObject, opened |-> opened]

\* NewFileInfo without the case for a commit object.
NewFileInfoNoCommitCase(hist, commit, hash, fullName, mode, fault) ==
    LET os == ToOSFileMode(mode)
        got == GetObject(hash, fault)
    IN IF os.err # Nil THEN Failed(os.err, FALSE)
       ELSE IF got.err # Nil THEN Failed(got.err, FALSE)
       ELSE IF got.obj.kind \notin {"tree", "blob"}
            THEN Failed(ErrUnsupportedKind, FALSE)
       ELSE LET isDir == got.obj.kind # "blob"
                size == IF isDir THEN 0 ELSE got.obj.size
                c == LogNext(hist, commit, isDir, fullName, fault)
            IN IF c.err # Nil THEN Failed(c.err, FALSE)
               ELSE [err |-> Nil, opened |-> FALSE,
                     obj |-> [commit |-> commit, hash |-> hash,
                              fullName |-> fullName, mode |-> os.mode,
                              modTime |-> c.when, size |-> size,
                              isDir |-> isDir, r |-> "nil", te |-> <<>>]]

\* NewFileInfo: the metadata-only constructor.
NewFileInfo(hist, commit, hash, fullName, mode, fault) ==
    LET os == ToOSFileMode(mode)
        got == GetObject(hash, fault)
    IN IF os.err # Nil THEN Failed(os.err, FALSE)
       ELSE IF got.err # Nil THEN Failed(got.err, FALSE)
       ELSE IF got.obj.kind \notin {"tree", "commit", "blob"}
            THEN Failed(ErrUnsupportedKind, FALSE)
       ELSE LET isDir == got.obj.kind # "blob"
                size == IF isDir THEN 0 ELSE got.obj.size
                c == LogNext(hist, commit, isDir, fullName, fault)
            IN IF c.err # Nil THEN Failed(c.err, FALSE)
               ELSE [err |-> Nil, opened |-> FALSE,
                     obj |-> [commit |-> commit, hash |-> hash,
                              fullName |-> fullName, mode |-> os.mode,
                              modTime |-> c.when, size |-> size,
                              isDir |-> isDir, r |-> "nil", te |-> <<>>]]

\* NewFile: the for-read constructor.  opened: v.Reader() returned a content
\* stream during the call.
NewFile(hist, commit, hash, fullName, mode, fault) ==
    LET os == ToOSFileMode(mode)
        got == GetObject(hash, fault)
    IN IF os.err # Nil THEN Failed(os.err, FALSE)
       ELSE IF got.err # Nil THEN Failed(got.err, FALSE)
       ELSE IF got.obj.kind \notin {"tree", "commit", "blob"}
            THEN Failed(ErrUnsupportedKind, FALSE)
       ELSE IF got.obj.kind = "commit" /\ fault = "Tree" THEN Failed(ErrStore, FALSE)
       ELSE IF got.obj.kind = "blob" /\ fault = "Reader" THEN Failed(ErrStore, FALSE)
       ELSE LET isDir == got.obj.kind # "blob"
                size == IF isDir THEN 0 ELSE got.obj.size
                te == CASE got.obj.kind = "tree" -> got.obj.entries
                        [] got.obj.kind = "commit" -> Objects[got.obj.tree].entries
                        [] OTHER -> <<>>
                r == IF isDir THEN "nil" ELSE "open"
                c == LogNext(hist, commit, isDir, fullName, fault)
            IN IF c.err # Nil THEN Failed(c.err, ~isDir)
               ELSE [err |-> Nil, opened |-> ~isDir,
                     obj |-> [commit |-> commit, hash |-> hash,
                              fullName |-> fullName, mode |-> os.mode,
                              modTime |-> c.when, size |-> size,
                              isDir |-> isDir, r |-> r, te |-> te]]

\* ------------------------------------------------------------------- Open
\* object.Tree.entry(baseName): the entry of that name in one tree.
TreeEntry(tree, baseName) ==
    LET hits == {i \in 1..Len(tree.entries) : tree.entries[i].name = baseName}
    IN IF hits = {} THEN [err |-> ErrEntryNotFound]
       ELSE [err |-> Nil, entry |-> tree.entries[CHOOSE i \in hits : TRUE]]

\* object.Tree.dir(baseName): the subtree of that name; a missing name is
\* ErrDirectoryNotFound, an entry that is no tree is not found as a tree.
TreeDir(tree, baseName) ==
    LET e == TreeEntry(tree, baseName)
    IN IF e.err # Nil THEN [err |-> ErrDirectoryNotFound]
       ELSE IF e.entry.hash \notin DOMAIN Objects
               \/ Objects[e.entry.hash].kind # "tree"
            THEN [err |-> ErrObjectNotFound]
       ELSE [err |-> Nil, tree |-> Objects[e.entry.hash]]

\* object.Tree.FindEntry(path): walk every segment but the last with dir,
\* look the last one up with entry.
RECURSIVE FindEntryFrom(_, _)
FindEntryFrom(tree, parts) ==
    IF Len(parts) > 1
    THEN LET d == TreeDir(tree, parts[1])
         IN IF d.err # Nil THEN [err |-> d.err]
            ELSE FindEntryFrom(d.tree, Tail(parts))
    ELSE TreeEntry(tree, parts[1])

FindEntry(tree, path) == FindEntryFrom(tree, Split(path))

\* The errors Open reports as fs.ErrNotExist.
IsNotFound(err) == err \in {ErrEntryNotFound, ErrFileNotFound}

\* Tree.Open(name)
TreeOpen(hist, name, fault) ==
    IF PathClean(name) = Dot
    THEN NewFile(hist, SnapshotCommit, SnapshotCommit, PathClean(name), "Dir", fault)
    ELSE LET f == FindEntry(SnapshotTree, name)
         IN IF f.err # Nil
            THEN IF IsNotFound(f.err) THEN Failed(ErrNotExist, FALSE)
                 ELSE Failed(f.err, FALSE)
            ELSE NewFile(hist, SnapshotCommit, f.entry.hash, PathClean(name),
                         f.entry.mode, fault)

\* ---------------------------------------------------------------- ReadDir
\* ReadDirCount taking every entry for n <= 0, as io/fs words it.
ReadDirCountAllOnZero(len, n) == IF n <= 0 \/ len < n THEN len ELSE n

\* The count of entries one call takes: n, or all of them when n < 0 or
\* more than remain.
ReadDirCount(len, n) == IF n < 0 \/ len < n THEN len ELSE n

\* te := o.te[:n]
Prefix(te, n) == SubSeq(te, 1, n)

\* Rest with the assignment to o.te left out.
RestKeepsAll(te, n) == te

\* o.te = o.te[n:]
Rest(te, n) == SubSeq(te, n + 1, Len(te))

\* OnChildError handing back the entries already made.
OnChildErrorPartial(done, err) == [err |-> err, ret |-> done, made |-> Len(done)]

\* What the loop hands back when a child's NewFileInfo fails, done being the
\* entries already made: return nil, err.
OnChildError(done, err) == [err |-> err, ret |-> <<>>, made |-> Len(done)]

\* The loop over the taken entries: ret[i] is the i-th child's NewFileInfo;
\* the first failure ends the call.
RECURSIVE Materialize(_, _, _, _, _, _)
Materialize(hist, o, te, faults, i, done) ==
    IF i > Len(te) THEN [err |-> Nil, ret |-> done, made |-> Len(done)]
    ELSE LET v == te[i]
             fi == NewFileInfo(hist, o.commit, v.hash,
                               PathJoin(o.fullName, v.name), v.mode, faults[i])
         IN IF fi.err # Nil THEN OnChildError(done, fi.err)
            ELSE Materialize(hist, o, te, faults, i + 1, Append(done, fi.obj))

\* ObjectReadDir advancing the cursor only when every child was made.
ObjectReadDirKeepsOnError(hist, o, n, faults) ==
    IF ~o.isDir THEN [err |-> ErrPermission, ret |-> <<>>, te |-> o.te, made |-> 0]
    ELSE IF Len(o.te) = 0 THEN [err |-> EOF, ret |-> <<>>, te |-> o.te, made |-> 0]
    ELSE LET m == ReadDirCount(Len(o.te), n)
             te == Prefix(o.te, m)
             out == Materialize(hist, o, te, faults, 1, <<>>)
         IN [err |-> out.err, ret |-> out.ret,
             te |-> IF out.err = Nil THEN Rest(o.te, m) ELSE o.te,
             made |-> out.made]

\* Object.ReadDir(n) on the handle o: its result and the cursor it leaves
\* (made: the children materialized during the call).
ObjectReadDir(hist, o, n, faults) ==
    IF ~o.isDir THEN [err |-> ErrPermission, ret |-> <<>>, te |-> o.te, made |-> 0]
    ELSE IF Len(o.te) = 0 THEN [err |-> EOF, ret |-> <<>>, te |-> o.te, made |-> 0]
    ELSE LET m == ReadDirCount(Len(o.te), n)
             te == Prefix(o.te, m)
             out == Materialize(hist, o, te, faults, 1, <<>>)
         IN [err |-> out.err, ret |-> out.ret, te |-> Rest(o.te, m),
             made |-> out.made]

\* SetCursor with one cursor per directory, shared by its handles.
SetCursorShared(hs, h, te) ==
    [k \in DOMAIN hs |->
        IF hs[k].hash = hs[h].hash THEN [hs[k] EXCEPT !.te = te] ELSE hs[k]]

\* The handles after handle h's cursor is set: the cursor is a field of
\* that one Object.
SetCursor(hs, h, te) == [hs EXCEPT ![h].te = te]

\* ObjectClose leaving a directory's entries in place.
ObjectCloseKeepsEntries(o) ==
    IF o.isDir THEN o ELSE [o EXCEPT !.r = "closed"]

\* Object.Close() on the handle o.
ObjectClose(o) ==
    IF o.isDir THEN [o EXCEPT !.te = <<>>]
    ELSE [o EXCEPT !.r = "closed"]

\* The full names of returned entries, and of the entries te of directory o.
Names(ret) == [i \in 1..Len(ret) |-> ret[i].fullName]
EntryNames(o, te) == [i \in 1..Len(te) |-> PathJoin(o.fullName, te[i].name)]

VARIABLES history, handles, returned, closed, failed, last, probe

vars == <<history, handles, returned, closed, failed, last, probe>>

\* The names the application opens.
OpenNames ==
    {<<>>, Dot, P_a, P_doc, P_docs, P_x, P_sub, P_readme, N_missing,
     PathJoin(N_missing, N_path), PathJoin(N_docs, N_missing)}

\* The nodes of the snapshot, as the constructors are given them.
Node(hash, fullName, mode) == [hash |-> hash, fullName |-> fullName, mode |-> mode]

Nodes ==
    {Node(SnapshotCommit, Dot, "Dir"), Node("ba", P_a, "Regular"),
     Node("tdoc", P_doc, "Dir"), Node("tdocs", P_docs, "Dir"),
     Node("bx", P_x, "Regular"), Node("csub", P_sub, "Submodule"),
     Node("br", P_readme, "Regular")}

\* The handles the application holds: two, those of one path opened twice.
HandleIds == {1, 2}

\* The store's answers to one ReadDir call: the child at failAt (0: none)
\* meets the fault; the loop stops there, so the later children meet nothing.
ChildFaults(failAt, fault) ==
    [i \in 1..Len(SnapshotTree.entries) |-> IF i = failAt THEN fault ELSE "none"]

\* No child meets a fault, or the history query of one child fails (a child
\* whose object the store does not hold fails without any fault).
ReadDirFaults ==
    {ChildFaults(i, "Next") : i \in 0..Len(SnapshotTree.entries)}

NoCall ==
    [op |-> "none", h |-> 0, n |-> 0, name |-> <<>>, faulted |-> FALSE,
     err |-> Nil, ret |-> <<>>, before |-> <<>>, after |-> <<>>,
     made |-> 0, opened |-> FALSE]

NoProbe ==
    [done |-> FALSE, node |-> Node("", <<>>, ""), fault |-> "none",
     light |-> Failed(Nil, FALSE), heavy |-> Failed(Nil, FALSE)]

\* The history in which the latest commit altered docs/readme.md alone.
ReadmeLast == [i \in 1..Len(CommitIds) |-> IF i = 1 THEN {P_readme} ELSE FilePaths]

Init ==
    /\ history = ReadmeLast
    /\ handles = <<>>
    /\ returned = <<>>
    /\ closed = <<>>
    /\ failed = <<>>
    /\ last = NoCall
    /\ probe = NoProbe

\* The application calls Tree.Open(name).
Open(name, fault) ==
    LET res == TreeOpen(history, name, fault)
    IN /\ Len(handles) + 1 \in HandleIds
       /\ last' = [NoCall EXCEPT !.op = "Open", !.name = name,
                                 !.faulted = (fault # "none"),
                                 !.err = res.err, !.opened = res.opened]
       /\ IF res.err = Nil
          THEN /\ handles' = Append(handles, res.obj)
               /\ returned' = Append(returned, <<>>)
               /\ closed' = Append(closed, FALSE)
               /\ failed' = Append(failed, FALSE)
          ELSE UNCHANGED <<handles, returned, closed, failed>>
       /\ UNCHANGED <<history, probe>>

\* The application calls ReadDir(n) on handle h.
ReadDir(h, n, faults) ==
    LET o == handles[h]
        res == ObjectReadDir(history, o, n, faults)
    IN /\ handles' = SetCursor(handles, h, res.te)
       /\ returned' = [returned EXCEPT ![h] = @ \o Names(res.ret)]
       /\ failed' = [failed EXCEPT ![h] = @ \/ res.err \notin {Nil, EOF}]
       /\ last' = [NoCall EXCEPT !.op = "ReadDir", !.h = h, !.n = n,
                                 !.err = res.err, !.ret = Names(res.ret),
                                 !.before = EntryNames(o, o.te),
                                 !.after = EntryNames(o, handles'[h].te),
                                 !.made = res.made]
       /\ UNCHANGED <<history, closed, probe>>

\* The application calls Close() on handle h (once: a second Close is
\* undefined).
Close(h) ==
    /\ ~closed[h]
    /\ handles' = [handles EXCEPT ![h] = ObjectClose(handles[h])]
    /\ closed' = [closed EXCEPT ![h] = TRUE]
    /\ last' = [NoCall EXCEPT !.op = "Close", !.h = h,
                              !.before = EntryNames(handles[h], handles[h].te),
                              !.after = EntryNames(handles[h], handles'[h].te)]
    /\ UNCHANGED <<history, returned, failed, probe>>

Next ==
    \/ \E name \in OpenNames, fault \in Faults : Open(name, fault)
    \/ \E h \in 1..Len(handles), n \in -1..MaxN, faults \in ReadDirFaults :
            ReadDir(h, n, faults)
    \/ \E h \in 1..Len(handles) : Close(h)

Spec == Init /\ [][Next]_vars

\* Any history of the snapshot, for the constructors taken alone.
InitStat ==
    /\ history \in Histories
    /\ handles = <<>>
    /\ returned = <<>>
    /\ closed = <<>>
    /\ failed = <<>>
    /\ last = NoCall
    /\ probe = NoProbe

\* Both constructors applied to one node under one answer of the store.
Probe(node, fault) ==
    /\ probe' = [done |-> TRUE, node |-> node, fault |-> fault,
                 light |-> NewFileInfo(history, SnapshotCommit, node.hash,
                                       node.fullName, node.mode, fault),
                 heavy |-> NewFile(history, SnapshotCommit, node.hash,
                                   node.fullName, node.mode, fault)]
    /\ UNCHANGED <<history, handles, returned, closed, failed, last>>

NextStat == \E node \in Nodes, fault \in Faults : Probe(node, fault)

SpecStat == InitStat /\ [][NextStat]_vars

\* ------------------------------------------------------------- properties
\* The stored child list of the directory a handle was opened on, as full
\* names in stored order.
StoredNames(o) ==
    LET obj == Objects[o.hash]
        tree == IF obj.kind = "commit" THEN Objects[obj.tree] ELSE obj
    IN EntryNames(o, tree.entries)

IsPrefixOf(p, q) == Len(p) <= Len(q) /\ SubSeq(q, 1, Len(p)) = p

NoDuplicates(q) == \A i, j \in 1..Len(q) : q[i] = q[j] => i = j

DirHandles == {h \in 1..Len(handles) : handles[h].isDir}

\* The last call was ReadDir on a directory handle.
ReadDirOnDir == last.op = "ReadDir" /\ handles[last.h].isDir

\* The last call was a ReadDir that failed on a child.
ChildFailed == ReadDirOnDir /\ last.err \notin {Nil, EOF}

\* C1: on a directory handle that was not closed and met no child failure,
\* the entries returned so far followed by the cursor are the stored child
\* list, each successful call returns exactly the prefix it removes from the
\* cursor, and when end-of-sequence is signalled the returned entries are
\* the whole stored list, each once and in stored order.
C1_EachChildOnceInOrder ==
    /\ \A h \in DirHandles :
          ~failed[h] /\ ~closed[h] =>
             returned[h] \o EntryNames(handles[h], handles[h].te)
                = StoredNames(handles[h])
    /\ ReadDirOnDir /\ last.err = Nil => last.before = last.ret \o last.after
    /\ ReadDirOnDir /\ last.err = EOF /\ ~failed[last.h] /\ ~closed[last.h] =>
          returned[last.h] = StoredNames(handles[last.h])

\* C1's case: the three children of the root were all returned, without
\* failure, and end-of-sequence was then signalled.
C1_Witness ==
    /\ ReadDirOnDir /\ last.err = EOF /\ last.n # 0
    /\ ~failed[last.h] /\ ~closed[last.h]
    /\ handles[last.h].fullName = Dot
    /\ Len(returned[last.h]) = 3

\* C4: ReadDir on a directory handle whose cursor is exhausted, or that was
\* closed, signals end-of-sequence and returns nothing; no handle returns an
\* entry twice.
C4_ExhaustedOrClosedIsEOF ==
    /\ ReadDirOnDir /\ (closed[last.h] \/ last.before = <<>>) =>
          last.err = EOF /\ last.ret = <<>>
    /\ \A h \in DirHandles : NoDuplicates(returned[h])

\* C4's case: a handle closed while entries remained, then read again.
C4_Witness ==
    /\ ReadDirOnDir /\ closed[last.h] /\ last.err = EOF
    /\ Len(returned[last.h]) = 1
    /\ Len(StoredNames(handles[last.h])) = 3

\* C5: with an empty cursor and n # 0 ReadDir signals end-of-sequence; with
\* n = 0 and entries remaining it returns an empty result and no error and
\* leaves the cursor as it was.
C5_ZeroCountAndEOF ==
    /\ ReadDirOnDir /\ last.before = <<>> /\ last.n # 0 => last.err = EOF
    /\ ReadDirOnDir /\ last.n = 0 /\ last.before # <<>> =>
          /\ last.err = Nil
          /\ last.ret = <<>>
          /\ last.after = last.before

\* C5's case: a call with n = 0 on a cursor that holds entries.
C5_Witness == ReadDirOnDir /\ last.n = 0 /\ Len(last.before) = 2

\* C6: a ReadDir call in which a child's NewFileInfo fails returns that
\* error and no entries, whatever it had materialized before.
C6_FailureReturnsNothing == ChildFailed => last.ret = <<>>

\* C6's case: the failing child came after two children that were
\* materialized in the same call.
C6_Witness == ChildFailed /\ last.made = 2

\* C8: each of the handles, also two handles opened on one directory, keeps
\* its own cursor: a ReadDir or Close on one handle changes neither the
\* cursor nor the returned entries of any other handle, and each handle on
\* its own returns the stored children once and in order.
C8_IndependentCursors ==
    /\ [][\A h \in 1..Len(handles) :
             last'.op \in {"ReadDir", "Close"} /\ last'.h # h =>
                /\ handles'[h] = handles[h]
                /\ returned'[h] = returned[h]]_vars
    /\ [](\A h \in DirHandles :
             ~failed[h] /\ ~closed[h] =>
                returned[h] \o EntryNames(handles[h], handles[h].te)
                   = StoredNames(handles[h]))

\* C8's case: two handles on the root, read to different positions.
C8_Witness ==
    /\ Len(handles) = 2
    /\ handles[1].hash = handles[2].hash
    /\ handles[1].fullName = Dot
    /\ Len(returned[1]) = 3
    /\ Len(returned[2]) = 1
    /\ Len(handles[2].te) = 2
    /\ ~failed[1] /\ ~failed[2] /\ ~closed[1] /\ ~closed[2]

\* C9: a ReadDir call that fails on a child has removed the whole requested
\* prefix from the cursor: what remains is the cursor after the first
\* min(n, len) entries (all of them for n < 0), and every call returns
\* only entries it removes, so the failed batch is never returned later.
C9_FailureConsumesPrefix ==
    /\ ChildFailed =>
          /\ Len(last.after) = Len(last.before)
                - (IF last.n < 0 \/ Len(last.before) < last.n
                   THEN Len(last.before) ELSE last.n)
          /\ last.after = SubSeq(last.before,
                                 Len(last.before) - Len(last.after) + 1,
                                 Len(last.before))
    /\ ReadDirOnDir => IsPrefixOf(last.ret, last.before)
    /\ \A h \in DirHandles :
          \A i \in 1..Len(handles[h].te) :
             \A j \in 1..Len(returned[h]) :
                PathJoin(handles[h].fullName, handles[h].te[i].name)
                   # returned[h][j]

\* C9's case: a batch of two failed on its second child and one entry is left.
C9_Witness ==
    /\ ChildFailed /\ last.n = 2 /\ last.made = 1
    /\ Len(last.before) = 3 /\ Len(last.after) = 1

\* A name with a segment that its directory does not hold: some leading part
\* of the path is no path of the snapshot, while the part before it is the
\* root or a directory of the snapshot.
SnapshotDirs == {P_doc, P_docs}
SnapshotPaths == SnapshotDirs \cup {P_a, P_x, P_sub, P_readme}

RECURSIVE JoinParts(_, _)
JoinParts(parts, k) ==
    IF k = 1 THEN parts[1] ELSE JoinParts(parts, k - 1) \o Slash \o parts[k]

SegmentAbsent(name) ==
    LET parts == Split(name)
    IN \E k \in 1..Len(parts) :
          /\ JoinParts(parts, k) \notin SnapshotPaths
          /\ k = 1 \/ JoinParts(parts, k - 1) \in SnapshotDirs

IsRoot(name) == name \in {<<>>, Dot}

\* C2: while the store answers every call, Open of a name with an absent
\* segment, final or intermediate, fails with fs.ErrNotExist, and Open of
\* the root never fails with fs.ErrNotExist.
C2_AbsentSegmentIsNotExist ==
    last.op = "Open" =>
       /\ ~last.faulted /\ ~IsRoot(last.name) /\ SegmentAbsent(last.name) =>
             last.err = ErrNotExist
       /\ IsRoot(last.name) => last.err # ErrNotExist

\* C10: when Open fails, no content stream that the call opened is still
\* open: a stream is handed to the caller in the handle or closed.
C10_NoStreamLeftOpen ==
    last.op = "Open" /\ last.err # Nil => ~last.opened

\* The author time of the first commit of the history that altered a file
\* under the directory dir: a path that continues dir with a slash.
SubtreeWhen(hist, dir) ==
    LET hits == {i \in 1..Len(CommitIds) :
                    \E s \in hist[i] : HasPrefix(s, dir \o Slash)}
    IN CommitWhen[CHOOSE i \in hits : \A j \in hits : i <= j]

\* Name(), Size(), Mode(), ModTime(), IsDir() of an Object.
StatOf(o) ==
    [name |-> PathBase(o.fullName), size |-> o.size, mode |-> o.mode,
     modTime |-> o.modTime, isDir |-> o.isDir]

ProbedDir == probe.done /\ probe.node.fullName \in SnapshotDirs

\* C3: the modification time of a non-root directory entry, from either
\* constructor, is the author time of the first commit in the history that
\* altered a file under that directory; a commit that altered only paths
\* outside it (docs/readme.md for the directory doc) does not decide it.
C3_DirModTimeFromSubtree ==
    ProbedDir =>
       /\ probe.light.err = Nil =>
             probe.light.obj.modTime = SubtreeWhen(history, probe.node.fullName)
       /\ probe.heavy.err = Nil =>
             probe.heavy.obj.modTime = SubtreeWhen(history, probe.node.fullName)

\* C7 as stated: on one node and one answer of the store, NewFileInfo and
\* NewFile both fail or both succeed, and then with the same stat fields.
C7_BothFailOrBothSucceed ==
    probe.done =>
       /\ (probe.light.err = Nil) <=> (probe.heavy.err = Nil)
       /\ probe.light.err = Nil /\ probe.heavy.err = Nil =>
             StatOf(probe.light.obj) = StatOf(probe.heavy.obj)

\* C7 amended: whenever NewFile succeeds NewFileInfo succeeds with the same
\* stat fields; NewFileInfo succeeds where NewFile fails only when NewFile
\* failed loading the commit's tree or opening the blob's content stream;
\* the light entry has no content stream and no child list, and NewFileInfo
\* opens no content stream.
C7_LightAgreesWithHeavy ==
    probe.done =>
       /\ probe.heavy.err = Nil =>
             /\ probe.light.err = Nil
             /\ StatOf(probe.light.obj) = StatOf(probe.heavy.obj)
       /\ probe.light.err = Nil /\ probe.heavy.err # Nil =>
             probe.fault \in {"Tree", "Reader"}
       /\ ~probe.light.opened
       /\ probe.light.obj.r = "nil"
       /\ probe.light.obj.te = <<>>

\* C7's case: both constructors succeeded on a blob, NewFile with its
\* content stream open.
C7_Witness ==
    /\ probe.done
    /\ probe.light.err = Nil /\ probe.heavy.err = Nil
    /\ probe.heavy.opened /\ probe.heavy.obj.r = "open"
    /\ probe.heavy.obj.size = 7

====
